---- MODULE Spec2Model ----
(***************************************************************************)
(* A model of python-icap's hook table and server handle (icap/server.py)  *)
(* and of its header multimap, ICAP message properties, HTTP message body  *)
(* and ICAPRequest.from_parser (icap/models.py).                           *)
(*                                                                         *)
(* A Python value is a record [t, s]: t is the name of its type and s the  *)
(* sequence of its characters (a str), of its bytes (a bytes), or of the   *)
(* characters of its repr (anything else).                                 *)
(***************************************************************************)
EXTENDS Integers, Sequences, FiniteSets, TLC

VARIABLES
    hooks,        \* the Hooks instance `hooks`, a dict: name -> [func, default]
    decorators,   \* the `wrapped` closures returned by hooks(...) and still referenced
    expected,     \* history: per name, the fallback the registrations so far call for
    lastFunc,     \* history: per name, the function decorated most recently
    interleaved,  \* history: per name, a decorator was applied after a later registration
    headers,      \* a HeadersDict: the OrderedDict's items, lkey -> list of (key, value)
    log,          \* history: the (key, value) pairs inserted, while only insertions happened
    msg,          \* the ICAP message owning `headers`: its class and request method
    cache,        \* the message's __dict__ entries written by cached_property
    reads,        \* history: per cached property, what its first read gave
    parser,       \* the envelope an ICAPRequestParser holds after parsing
    request,      \* the ICAPRequest made by ICAPRequest.from_parser
    _body,        \* HTTPMessage._body of the HTTP message owning `headers`
    _server,      \* icap.server._server
    servers,      \* the asyncio servers created so far: port, state, close() calls
    loop,         \* the event loop: "idle" or "running" (inside run_forever)
    ret           \* what the last operation returned or raised

vars == <<hooks, decorators, expected, lastFunc, interleaved, headers, log, msg,
          cache, reads, parser, request, _body, _server, servers, loop, ret>>

hookVars == <<hooks, decorators, expected, lastFunc, interleaved>>
headerVars == <<headers, log>>
msgVars == <<msg, cache, reads>>
httpVars == <<parser, request, _body>>
serverVars == <<_server, servers, loop>>

----------------------------------------------------------------------------
(* Bounds of the model. *)

MaxPairs == 3        \* (key, value) pairs held by one HeadersDict
MaxItems == 2        \* length of the `items` given to HeadersDict(items)
MaxIcapPairs == 2    \* pairs held by the headers of the ICAP message
MaxContentTypes == 2 \* Content-Type pairs held by the headers of the HTTP message
MaxDecorators == 2   \* `wrapped` closures alive at once
MaxRegs == 3         \* registrations (decorated functions) in one behaviour
MaxServers == 3      \* servers created by run() in one behaviour
MaxCloses == 2       \* close() calls counted per server

----------------------------------------------------------------------------
(* Python values. *)

PyStr(s) == [t |-> "str", s |-> s]
PyBytes(s) == [t |-> "bytes", s |-> s]
PyInt(s) == [t |-> "int", s |-> s]
None == [t |-> "NoneType", s |-> <<>>]
True == [t |-> "bool", s |-> <<"T", "r", "u", "e">>]
False == [t |-> "bool", s |-> <<"F", "a", "l", "s", "e">>]
Bool(b) == IF b THEN True ELSE False

\* What an operation returned (kind "ok", val the values returned) or raised;
\* was: how many pairs the HeadersDict held under the key before the operation.
Returned(op, val) == [op |-> op, kind |-> "ok", val |-> val, was |-> 0]
Raised(op, exc) == [op |-> op, kind |-> exc, val |-> <<>>, was |-> 0]
NoRet == Returned("none", <<>>)

UpperAlpha == <<"A", "B", "C", "D", "E", "F", "G", "H", "I", "J", "K", "L", "M",
                "N", "O", "P", "Q", "R", "S", "T", "U", "V", "W", "X", "Y", "Z">>
LowerAlpha == <<"a", "b", "c", "d", "e", "f", "g", "h", "i", "j", "k", "l", "m",
                "n", "o", "p", "q", "r", "s", "t", "u", "v", "w", "x", "y", "z">>

LowerChar(c) ==
    IF \E i \in DOMAIN UpperAlpha : UpperAlpha[i] = c
    THEN LowerAlpha[CHOOSE i \in DOMAIN UpperAlpha : UpperAlpha[i] = c]
    ELSE c

UpperChar(c) ==
    IF \E i \in DOMAIN LowerAlpha : LowerAlpha[i] = c
    THEN UpperAlpha[CHOOSE i \in DOMAIN LowerAlpha : LowerAlpha[i] = c]
    ELSE c

\* str.lower() and bytes.lower(); any other type has no such method.
HasLower(v) == v.t \in {"str", "bytes"}
PyLower(v) == [t |-> v.t, s |-> [i \in DOMAIN v.s |-> LowerChar(v.s[i])]]
PyUpper(v) == [t |-> v.t, s |-> [i \in DOMAIN v.s |-> UpperChar(v.s[i])]]

\* `needle in hay` for two str: needle occurs in hay as a substring.
IsSubstring(needle, hay) ==
    \E i \in 0..(Len(hay) - Len(needle)) :
        \A j \in 1..Len(needle) : hay[i + j] = needle[j]

RECURSIVE Concat(_)
Concat(ss) == IF ss = <<>> THEN <<>> ELSE Head(ss) \o Concat(Tail(ss))

\* s.split(sep), sep one character; acc holds the part being read.
RECURSIVE Split(_, _, _)
Split(s, sep, acc) ==
    IF s = <<>> THEN <<acc>>
    ELSE IF Head(s) = sep THEN <<acc>> \o Split(Tail(s), sep, <<>>)
    ELSE Split(Tail(s), sep, Append(acc, Head(s)))

\* s.strip() of blanks.
RECURSIVE Strip(_)
Strip(s) ==
    IF s = <<>> THEN s
    ELSE IF Head(s) = " " THEN Strip(Tail(s))
    ELSE IF s[Len(s)] = " " THEN Strip(SubSeq(s, 1, Len(s) - 1))
    ELSE s

\* s.startswith(prefix)
StartsWith(s, prefix) ==
    Len(s) >= Len(prefix) /\ SubSeq(s, 1, Len(prefix)) = prefix

----------------------------------------------------------------------------
(* HeadersDict. *)

\* _checktype: bytes are decoded, str is kept, anything else is a TypeError.
CheckTypeOk(v) == v.t \in {"bytes", "str"}
CheckType(v) == IF v.t = "bytes" THEN PyStr(v.s) ELSE v

\* The position of the item stored under lkey, 0 when there is none.
IndexOf(h, lkey) ==
    IF \E i \in DOMAIN h : h[i].lkey = lkey
    THEN CHOOSE i \in DOMAIN h : h[i].lkey = lkey
    ELSE 0

RECURSIVE PairCount(_)
PairCount(h) == IF h = <<>> THEN 0 ELSE Len(Head(h).pairs) + PairCount(Tail(h))

\* OrderedDict.__setitem__(self, lkey, pairs): a new key goes last, an old one
\* keeps its place.
DictSet(h, lkey, pairs) ==
    IF IndexOf(h, lkey) = 0
    THEN Append(h, [lkey |-> lkey, pairs |-> pairs])
    ELSE [h EXCEPT ![IndexOf(h, lkey)].pairs = pairs]

\* OrderedDict.__delitem__(self, lkey), lkey present.
DictDel(h, lkey) ==
    LET i == IndexOf(h, lkey)
    IN  SubSeq(h, 1, i - 1) \o SubSeq(h, i + 1, Len(h))

\* __setitem__ filing the pair under the key as given.
SetItemLKeyAsGiven(key) == key

\* The key __setitem__ files a pair under.
SetItemLKey(key) == PyLower(key)

\* __setitem__ with key and value already through _checktype.
SetItemH(h, key, value) ==
    LET lkey == SetItemLKey(key)
    IN  IF IndexOf(h, lkey) = 0
        THEN DictSet(h, lkey, <<<<key, value>>>>)
        ELSE DictSet(h, lkey, Append(h[IndexOf(h, lkey)].pairs, <<key, value>>))

\* replace behaving as __setitem__ does: the pair is appended.
ReplaceAppends(h, key, value) ==
    LET lkey == PyLower(key)
    IN  IF IndexOf(h, lkey) = 0
        THEN DictSet(h, lkey, <<<<key, value>>>>)
        ELSE DictSet(h, lkey, Append(h[IndexOf(h, lkey)].pairs, <<key, value>>))

\* replace: no _checktype, the one pair is stored as given.
ReplaceH(h, key, value) == DictSet(h, PyLower(key), <<<<key, value>>>>)

\* __contains__ and __getitem__ look up _checktype(key).lower().
Contains(h, key) == IndexOf(h, PyLower(CheckType(key))) # 0
GetItem(h, key) == h[IndexOf(h, PyLower(CheckType(key)))].pairs[1][2]

\* getlist looks up key.lower(), and a KeyError gives default() == [].
GetList(h, key) ==
    LET i == IndexOf(h, PyLower(key))
    IN  IF i = 0 THEN <<>> ELSE [n \in DOMAIN h[i].pairs |-> h[i].pairs[n][2]]

\* get: the first value, or the default on a KeyError.
Get(h, key, default) == IF Contains(h, key) THEN GetItem(h, key) ELSE default

AllText(h) ==
    \A i \in DOMAIN h : \A n \in DOMAIN h[i].pairs :
        h[i].pairs[n][1].t = "str" /\ h[i].pairs[n][2].t = "str"

\* The pairs __bytes__ walks: for k in self, for v in the list stored at k.
RECURSIVE PairsInOrder(_)
PairsInOrder(h) == IF h = <<>> THEN <<>> ELSE Head(h).pairs \o PairsInOrder(Tail(h))

\* A line written with the lowercased key of the dict, not the pair's own name.
LineLowerName(pair) == PyLower(pair[1]).s \o <<":", " ">> \o pair[2].s

\* ': '.join(v) of one (name, value) pair.
Line(pair) == pair[1].s \o <<":", " ">> \o pair[2].s

\* sep.join(parts)
RECURSIVE Join(_, _)
Join(sep, parts) ==
    IF parts = <<>> THEN <<>>
    ELSE IF Len(parts) = 1 THEN Head(parts)
    ELSE Head(parts) \o sep \o Join(sep, Tail(parts))

CRLF == <<"\r", "\n">>

\* __bytes__: b'' when empty; str.join raises TypeError on a non-str item.
HeaderBytes(h) ==
    IF h = <<>> THEN Returned("bytes", <<PyBytes(<<>>)>>)
    ELSE IF ~AllText(h) THEN Raised("bytes", "TypeError")
    ELSE LET ps == PairsInOrder(h)
         IN  Returned("bytes",
                 <<PyBytes(Join(CRLF, [n \in DOMAIN ps |-> Line(ps[n])]) \o CRLF)>>)

\* OrderedDict.pop(self, lkey): the value stored under lkey, the list of pairs.
PopValue(h, lkey) == [t |-> "list", s |-> h[IndexOf(h, lkey)].pairs]

EmptyLog == [pure |-> TRUE, items |-> <<>>]
Impure == [pure |-> FALSE, items |-> <<>>]

\* HeadersDict(items): the HeadersDict is filled by self[key] = value per item.
RECURSIVE FromItems(_, _)
FromItems(h, items) ==
    IF items = <<>> THEN h
    ELSE FromItems(SetItemH(h, CheckType(Head(items)[1]), CheckType(Head(items)[2])),
                   Tail(items))

\* The construction is the first thing that happens to the HeadersDict.
Construct(items) ==
    /\ ret = NoRet
    /\ IF \A n \in DOMAIN items : CheckTypeOk(items[n][1]) /\ CheckTypeOk(items[n][2])
       THEN /\ headers' = FromItems(<<>>, items)
            /\ log' = [pure |-> TRUE,
                       items |-> [n \in DOMAIN items |->
                                    <<CheckType(items[n][1]), CheckType(items[n][2])>>]]
            /\ ret' = Returned("init", <<>>)
       ELSE /\ ret' = Raised("init", "TypeError")
            /\ UNCHANGED headerVars
    /\ UNCHANGED <<hookVars, msgVars, serverVars, httpVars>>

\* h[key] = value
SetItem(key, value) ==
    /\ PairCount(headers) < MaxPairs
    /\ IF CheckTypeOk(key) /\ CheckTypeOk(value)
       THEN /\ headers' = SetItemH(headers, CheckType(key), CheckType(value))
            /\ log' = IF log.pure
                      THEN [log EXCEPT !.items = Append(@, <<CheckType(key), CheckType(value)>>)]
                      ELSE log
            /\ ret' = Returned("setitem", <<>>)
       ELSE /\ ret' = Raised("setitem", "TypeError")
            /\ UNCHANGED headerVars
    /\ UNCHANGED <<hookVars, msgVars, serverVars, httpVars>>

\* h.replace(key, value)
Replace(key, value) ==
    /\ IF HasLower(key)
       THEN /\ PairCount(ReplaceH(headers, key, value)) <= MaxPairs
            /\ headers' = ReplaceH(headers, key, value)
            /\ log' = Impure
            /\ ret' = [Returned("replace", <<>>) EXCEPT !.was = Len(GetList(headers, key))]
       ELSE /\ ret' = Raised("replace", "AttributeError")
            /\ UNCHANGED headerVars
    /\ UNCHANGED <<hookVars, msgVars, serverVars, httpVars>>

\* del h[key]
DelItem(key) ==
    /\ IF ~HasLower(key)
       THEN /\ ret' = Raised("delitem", "AttributeError")
            /\ UNCHANGED headerVars
       ELSE IF IndexOf(headers, PyLower(key)) = 0
       THEN /\ ret' = Raised("delitem", "KeyError")
            /\ UNCHANGED headerVars
       ELSE /\ headers' = DictDel(headers, PyLower(key))
            /\ log' = Impure
            /\ ret' = [Returned("delitem", <<>>) EXCEPT !.was = Len(GetList(headers, key))]
    /\ UNCHANGED <<hookVars, msgVars, serverVars, httpVars>>

\* h.pop(key) and, with hasDefault, h.pop(key, None)
Pop(key, hasDefault) ==
    /\ IF ~HasLower(key)
       THEN /\ ret' = Raised("pop", "AttributeError")
            /\ UNCHANGED headerVars
       ELSE IF IndexOf(headers, PyLower(key)) = 0
       THEN /\ ret' = IF hasDefault THEN Returned("pop", <<None>>)
                      ELSE Raised("pop", "KeyError")
            /\ UNCHANGED headerVars
       ELSE /\ headers' = DictDel(headers, PyLower(key))
            /\ log' = Impure
            /\ ret' = [Returned("pop", <<PopValue(headers, PyLower(key))>>)
                          EXCEPT !.was = Len(GetList(headers, key))]
    /\ UNCHANGED <<hookVars, msgVars, serverVars, httpVars>>

----------------------------------------------------------------------------
(* Hooks. *)

\* The names looked up, and those of them that functions are registered under.
HookNames == {"is_tag", "before_handling"}
RegisteredNames == {"is_tag"}

\* Hooks is a dict: a function from the names registered so far.
NoHooks == [n \in {} |-> None]
Has(h, name) == name \in DOMAIN h

\* The functions a user registers, and what a call of one may do: return its
\* value, raise an Exception, or raise SystemExit, which derives from
\* BaseException only.
HookFuncs == {"tag_v1", "tag_v2"}
Outcomes == {"return", "Exception", "SystemExit"}

Result(f) == IF f = "tag_v1" THEN PyStr(<<"v", "1">>) ELSE PyStr(<<"v", "2">>)

Defaults == {None, PyStr(<<"d", "1">>)}

\* What `except Exception` catches.
CaughtByExceptException(kind) == kind = "Exception"

\* safe_callable with `return default` taken for `return None`.
SafeCallableDropsDefault(h, name, kwargs, outcome) ==
    IF Has(h, name) /\ outcome = "return" THEN Returned("call", <<Result(h[name].func)>>)
    ELSE IF Has(h, name) /\ outcome = "SystemExit" THEN Raised("call", outcome)
    ELSE Returned("call", <<None>>)

\* hooks[name](*args, **kwargs): __getitem__ and the call of safe_callable,
\* in which the registered function does `outcome`. With no hook under the
\* name, func is `lambda *args: None`, which raises TypeError when given
\* keyword arguments.
SafeCallable(h, name, kwargs, outcome) ==
    LET default == IF Has(h, name) THEN h[name].default ELSE None
        kind == IF Has(h, name) THEN outcome
                ELSE IF kwargs THEN "Exception" ELSE "return"
        val == IF Has(h, name) THEN Result(h[name].func) ELSE None
    IN  IF kind = "return" THEN Returned("call", <<val>>)
        ELSE IF CaughtByExceptException(kind) THEN Returned("call", <<default>>)
        ELSE Raised("call", kind)

\* __call__ without its `name in self and not override` branch.
CapturedDefaultAlwaysNew(h, name, default, override) == default

\* The default that hooks(name, default, override) leaves in the closure.
CapturedDefault(h, name, default, override) ==
    IF Has(h, name) /\ ~override THEN h[name].default ELSE default

\* wrapped(func): self[name] = func, default
Store(h, name, func, default) ==
    [n \in DOMAIN h \cup {name} |->
        IF n = name THEN [func |-> func, default |-> default] ELSE h[n]]

\* hooks(name, default, override): returns the closure `wrapped`. The closure
\* also carries, as history, the arguments of the call and whether another
\* function was decorated under the name since.
HooksCall(name, default, override) ==
    /\ Cardinality(decorators) < MaxDecorators
    /\ decorators' = decorators \cup
           {[name |-> name,
             default |-> CapturedDefault(hooks, name, default, override),
             given |-> default, override |-> override, stale |-> FALSE]}
    /\ ret' = Returned("hooks", <<>>)
    /\ UNCHANGED <<hooks, expected, lastFunc, interleaved>>
    /\ UNCHANGED <<headerVars, msgVars, serverVars, httpVars>>

RECURSIVE SumRegs(_, _)
SumRegs(e, names) ==
    IF names = {} THEN 0
    ELSE LET n == CHOOSE x \in names : TRUE
         IN  e[n].regs + SumRegs(e, names \ {n})

Stale(ds, name) ==
    {IF d.name = name THEN [d EXCEPT !.stale = TRUE] ELSE d : d \in ds}

\* d(func), the decorator applied.
Wrapped(d, func) ==
    /\ d \in decorators
    /\ SumRegs(expected, HookNames) < MaxRegs
    /\ hooks' = Store(hooks, d.name, func, d.default)
    /\ decorators' = Stale(decorators \ {d}, d.name)
    /\ expected' = [expected EXCEPT ![d.name] =
                       [fallback |-> IF @.regs = 0 \/ d.override THEN d.given
                                     ELSE @.fallback,
                        regs |-> @.regs + 1,
                        overridden |-> @.overridden \/ (@.regs > 0 /\ d.override)]]
    /\ lastFunc' = [lastFunc EXCEPT ![d.name] = func]
    /\ interleaved' = [interleaved EXCEPT ![d.name] = @ \/ d.stale]
    /\ ret' = Returned("wrapped", <<>>)
    /\ UNCHANGED <<headerVars, msgVars, serverVars, httpVars>>

\* hooks[name](...)
CallHook(name, kwargs, outcome) ==
    /\ ret' = SafeCallable(hooks, name, kwargs, outcome)
    /\ UNCHANGED <<hookVars, headerVars, msgVars, serverVars, httpVars>>

----------------------------------------------------------------------------
(* run and stop. The name `asyncio` in run is taken to be bound to the      *)
(* standard library's module.                                               *)

NoServer == 0
Ports == {1334, 1335}

PortInUse(port) ==
    \E i \in DOMAIN servers : servers[i].port = port /\ servers[i].state = "listening"

\* run(host, port): create_server, _server = the server, then run_forever.
\* Called while the loop runs, run_until_complete raises RuntimeError; a port
\* another listening server holds makes create_server raise OSError.
Run(port) ==
    /\ IF loop = "running"
       THEN /\ ret' = Raised("run", "RuntimeError")
            /\ UNCHANGED serverVars
       ELSE IF PortInUse(port)
       THEN /\ ret' = Raised("run", "OSError")
            /\ UNCHANGED serverVars
       ELSE /\ Len(servers) < MaxServers
            /\ servers' = Append(servers, [port |-> port, state |-> "listening", closes |-> 0])
            /\ _server' = Len(servers) + 1
            /\ loop' = "running"
            /\ ret' = Returned("run_forever", <<>>)
    /\ UNCHANGED <<hookVars, headerVars, msgVars, httpVars>>

\* run_forever ends when an exception such as KeyboardInterrupt leaves it.
RunForeverEnds ==
    /\ loop = "running"
    /\ loop' = "idle"
    /\ ret' = Raised("run", "KeyboardInterrupt")
    /\ UNCHANGED <<_server, servers>>
    /\ UNCHANGED <<hookVars, headerVars, msgVars, httpVars>>

\* What stop leaves in the module's _server: `_serevr = None` binds a local
\* name, so the global keeps its value.
HandleAfterStop(handle) == handle

\* stop()
Stop ==
    /\ IF _server = NoServer
       THEN /\ ret' = Raised("stop", "AssertionError")
            /\ UNCHANGED serverVars
       ELSE /\ servers[_server].closes < MaxCloses
            /\ servers' = [servers EXCEPT ![_server].state = "closed",
                                          ![_server].closes = @ + 1]
            /\ _server' = HandleAfterStop(_server)
            /\ ret' = Returned("stop", <<>>)
            /\ UNCHANGED loop
    /\ UNCHANGED <<hookVars, headerVars, msgVars, httpVars>>

----------------------------------------------------------------------------
(* ICAPMessage, ICAPRequest, ICAPResponse. *)

Methods == {"OPTIONS", "REQMOD", "RESPMOD", "UNKNOWN"}

Messages ==
    {[cls |-> "ICAPRequest", method |-> m] : m \in Methods}
        \cup {[cls |-> "ICAPResponse", method |-> ""]}

EmptyCache == [allow_204 |-> "unset", has_body |-> "unset"]

Chars(v) == v.s

\* is_request and is_options
IsRequest(m) == m.cls = "ICAPRequest"
IsOptions(m) == m.method = "OPTIONS"

\* The body of allow_204:
\*   '204' in self.headers.get('allow', '') or 'preview' in self.headers
\* `in` raises TypeError when the first Allow value is not a str.
Allow204(h) ==
    LET allow == Get(h, PyStr(<<"a", "l", "l", "o", "w">>), PyStr(<<>>))
    IN  IF allow.t # "str" THEN Raised("allow_204", "TypeError")
        ELSE Returned("allow_204",
                 <<Bool(IsSubstring(<<"2", "0", "4">>, Chars(allow))
                        \/ Contains(h, PyStr(<<"p", "r", "e", "v", "i", "e", "w">>)))>>)

Encapsulated == PyStr(<<"e", "n", "c", "a", "p", "s", "u", "l", "a", "t", "e", "d">>)
NullBody == <<"n", "u", "l", "l", "-", "b", "o", "d", "y">>

\* The body of has_body. self.headers['encapsulated'] raises KeyError when
\* there is no such header.
HasBody(m, h) ==
    IF IsRequest(m) /\ IsOptions(m) /\ ~Contains(h, Encapsulated)
    THEN Returned("has_body", <<False>>)
    ELSE IF ~Contains(h, Encapsulated) THEN Raised("has_body", "KeyError")
    ELSE IF GetItem(h, Encapsulated).t # "str" THEN Raised("has_body", "TypeError")
    ELSE Returned("has_body",
             <<Bool(~IsSubstring(NullBody, Chars(GetItem(h, Encapsulated))))>>)

\* cached_property: the value computed by the first read that returns is kept
\* in the instance and returned by every later read.
Cached(slot, computed) ==
    IF slot # "unset" THEN [computed EXCEPT !.kind = "ok", !.val = <<Bool(slot = "True")>>]
    ELSE computed

Remember(slot, result) ==
    IF slot = "unset" /\ result.kind = "ok"
    THEN (IF result.val = <<True>> THEN "True" ELSE "False")
    ELSE slot

\* What a read gave: the value returned, or the name of the exception raised.
Outcome(result) ==
    IF result.kind # "ok" THEN result.kind
    ELSE IF result.val = <<True>> THEN "True" ELSE "False"

\* The history of first reads, one entry per cached property.
NoReads == [allow_204 |-> "unread", has_body |-> "unread"]
FirstRead(first, result) == IF first = "unread" THEN Outcome(result) ELSE first

\* request.allow_204; an ICAPResponse has no such attribute.
ReadAllow204 ==
    /\ IF ~IsRequest(msg)
       THEN /\ ret' = Raised("allow_204", "AttributeError")
            /\ UNCHANGED <<cache, reads>>
       ELSE /\ ret' = Cached(cache.allow_204, Allow204(headers))
            /\ cache' = [cache EXCEPT !.allow_204 = Remember(@, Allow204(headers))]
            /\ reads' = [reads EXCEPT !.allow_204 =
                             FirstRead(@, Cached(cache.allow_204, Allow204(headers)))]
    /\ UNCHANGED <<msg, hookVars, headerVars, serverVars, httpVars>>

\* message.has_body
ReadHasBody ==
    /\ ret' = Cached(cache.has_body, HasBody(msg, headers))
    /\ cache' = [cache EXCEPT !.has_body = Remember(@, HasBody(msg, headers))]
    /\ reads' = [reads EXCEPT !.has_body =
                     FirstRead(@, Cached(cache.has_body, HasBody(msg, headers)))]
    /\ UNCHANGED <<msg, hookVars, headerVars, serverVars, httpVars>>

----------------------------------------------------------------------------
(* HTTPMessage: content_type and the body setter. A body is a bytes, the   *)
(* sequence of its bytes, or a str, the sequence of its code points.       *)

ContentTypeName == PyStr(<<"c", "o", "n", "t", "e", "n", "t", "-", "t", "y", "p", "e">>)
DefaultContentType == PyStr(<<"t", "e", "x", "t", "/", "p", "l", "a", "i", "n", ";", " ", "c", "h", "a", "r", "s", "e", "t", "=", "u", "s", "-", "a", "s", "c", "i", "i">>)

\* The options of parse_options_header: the parts after the first, each
\* `key=value`; dict() keeps the last value given for a key.
RECURSIVE OptionOf(_, _, _)
OptionOf(parts, key, default) ==
    IF parts = <<>> THEN default
    ELSE LET kv == Split(Head(parts), "=", <<>>)
         IN  IF Strip(Head(kv)) = key /\ Len(kv) > 1
             THEN OptionOf(Tail(parts), key, Strip(kv[2]))
             ELSE OptionOf(Tail(parts), key, default)

\* content_type: parse_options_header of the first Content-Type value, or of
\* 'text/plain; charset=us-ascii' when there is none; charset '' when the
\* options have none.
ContentType(h) ==
    LET parts == Split(Chars(Get(h, ContentTypeName, DefaultContentType)), ";", <<>>)
    IN  [content_type |-> Strip(Head(parts)),
         charset |-> OptionOf(Tail(parts), <<"c", "h", "a", "r", "s", "e", "t">>, <<>>)]

\* The setter encoding under every media type.
MediaTypeAlwaysEncodes(content_type) == TRUE

\* content_type.startswith(('application', 'text', 'message'))
MediaTypeEncodes(content_type) ==
    \/ StartsWith(content_type, <<"a", "p", "p", "l", "i", "c", "a", "t", "i", "o", "n">>)
    \/ StartsWith(content_type, <<"t", "e", "x", "t">>)
    \/ StartsWith(content_type, <<"m", "e", "s", "s", "a", "g", "e">>)

\* One code point in UTF-8.
Utf8(c) ==
    IF c < 128 THEN <<c>>
    ELSE IF c < 2048 THEN <<192 + (c \div 64), 128 + (c % 64)>>
    ELSE <<224 + (c \div 4096), 128 + ((c \div 64) % 64), 128 + (c % 64)>>

\* value.encode(charset) of a str: the bytes, or LookupError when no codec has
\* the name, or UnicodeEncodeError when the codec has no bytes for a code point.
Encode(value, charset) ==
    IF PyLower(PyStr(charset)).s = <<"u", "s", "-", "a", "s", "c", "i", "i">>
    THEN IF \A i \in DOMAIN value.s : value.s[i] < 128
         THEN Returned("encode", <<PyBytes(value.s)>>)
         ELSE Raised("encode", "UnicodeEncodeError")
    ELSE IF PyLower(PyStr(charset)).s = <<"u", "t", "f", "-", "8">>
    THEN Returned("encode", <<PyBytes(Concat([i \in DOMAIN value.s |-> Utf8(value.s[i])]))>>)
    ELSE Raised("encode", "LookupError")

\* The body setter: what it raises, or the bytes it stores in _body.
BodySetter(h, value) ==
    LET ct == ContentType(h)
        encoded == IF value.t = "str" /\ ct.charset # <<>>
                       /\ MediaTypeEncodes(ct.content_type)
                   THEN Encode(value, ct.charset)
                   ELSE Returned("encode", <<value>>)
    IN  IF encoded.kind # "ok" THEN Raised("body", encoded.kind)
        ELSE IF encoded.val[1].t # "bytes" THEN Raised("body", "TypeError")
        ELSE Returned("body", encoded.val)

\* b'', the body HTTPMessage.__init__ stores by default.
NoBody == PyBytes(<<>>)

\* message.body = value
SetBody(value) ==
    /\ ret' = [BodySetter(headers, value) EXCEPT !.val = <<>>]
    /\ _body' = IF BodySetter(headers, value).kind = "ok"
                THEN BodySetter(headers, value).val[1]
                ELSE _body
    /\ UNCHANGED <<parser, request>>
    /\ UNCHANGED <<hookVars, headerVars, msgVars, serverVars>>

----------------------------------------------------------------------------
(* HTTPRequest, HTTPResponse and ICAPRequest.from_parser. The parser        *)
(* (icap/parsing.py) is modelled from its description: an envelope holds    *)
(* the request line, the headers, the Encapsulated table, and a sub-parser  *)
(* for the HTTP request when the table has req-hdr and one for the HTTP     *)
(* response when it has res-hdr.                                            *)

RequestLine(method, uri, version) == [method |-> method, uri |-> uri, version |-> version]
StatusLine(version, code, reason) == [version |-> version, code |-> code, reason |-> reason]

\* RequestLine('GET', '/', 'HTTP/1.1'), the default of HTTPRequest and of
\* HTTPResponse.request_line.
DefaultRequestLine == RequestLine("GET", "/", "HTTP/1.1")
\* RequestLine("UNKNOWN", "/", "ICAP/1.0"), the default of ICAPRequest.
UnknownRequestLine == RequestLine("UNKNOWN", "/", "ICAP/1.0")
DefaultStatusLine == StatusLine("HTTP/1.1", 200, "OK")

\* `x or default`: None is false.
Or(x, default) == IF x = None THEN default ELSE x

\* HTTPMessage.__init__ storing the body through the setter: the message, or
\* the exception of the setter.
HTTPMessageInit(message, headers_, body) ==
    IF BodySetter(headers_, body).kind # "ok"
    THEN Raised("to_http", BodySetter(headers_, body).kind)
    ELSE Returned("to_http",
             <<[message EXCEPT !.headers = headers_,
                               !.body = BodySetter(headers_, body).val[1]]>>)

\* HTTPRequest(request_line, headers, body)
HTTPRequestInit(request_line, headers_, body) ==
    HTTPMessageInit([cls |-> "HTTPRequest",
                     request_line |-> Or(request_line, DefaultRequestLine),
                     headers |-> <<>>, body |-> NoBody],
                    headers_, body)

\* HTTPResponse(status_line, headers, body): request_line and request_headers
\* start as the defaults.
HTTPResponseInit(status_line, headers_, body) ==
    HTTPMessageInit([cls |-> "HTTPResponse",
                     status_line |-> Or(status_line, DefaultStatusLine),
                     headers |-> <<>>, body |-> NoBody,
                     request_line |-> DefaultRequestLine,
                     request_headers |-> <<>>],
                    headers_, body)

\* HTTPRequest.from_parser and HTTPResponse.from_parser, with their asserts.
HTTPRequestFromParser(sub) ==
    IF ~sub.is_request THEN Raised("to_http", "AssertionError")
    ELSE HTTPRequestInit(sub.sline, sub.headers, sub.payload)

HTTPResponseFromParser(sub) ==
    IF sub.is_request THEN Raised("to_http", "AssertionError")
    ELSE HTTPResponseInit(sub.sline, sub.headers, sub.payload)

\* sub.to_http(): the HTTP message of a sub-parser; an envelope without the
\* sub-parser holds None in its place, and None has no to_http.
ToHttp(sub) ==
    IF sub = None THEN Raised("to_http", "AttributeError")
    ELSE IF sub.is_request THEN HTTPRequestFromParser(sub)
    ELSE HTTPResponseFromParser(sub)

\* 'req-hdr' in parser.encapsulated_header
InTable(name, table) == \E i \in DOMAIN table : table[i].name = name

\* ICAPRequest(request_line, headers, http)
ICAPRequestInit(request_line, headers_, http) ==
    [cls |-> "ICAPRequest",
     request_line |-> Or(request_line, UnknownRequestLine),
     headers |-> headers_, http |-> http]

\* ICAPRequest.from_parser(parser): the request, or the exception raised.
\* With none of is_options, is_reqmod, is_respmod the local `self` is unbound
\* at `return self`.
FromParserResult(p) ==
    IF p.sline.method = "OPTIONS"
    THEN Returned("from_parser", <<ICAPRequestInit(p.sline, p.headers, None)>>)
    ELSE IF p.sline.method = "REQMOD"
    THEN IF ToHttp(p.request_parser).kind # "ok"
         THEN Raised("from_parser", ToHttp(p.request_parser).kind)
         ELSE Returned("from_parser",
                  <<ICAPRequestInit(p.sline, p.headers, ToHttp(p.request_parser).val[1])>>)
    ELSE IF p.sline.method = "RESPMOD"
    THEN IF ToHttp(p.response_parser).kind # "ok"
         THEN Raised("from_parser", ToHttp(p.response_parser).kind)
         ELSE IF ~InTable("req-hdr", p.encapsulated_header)
         THEN Returned("from_parser",
                  <<ICAPRequestInit(p.sline, p.headers, ToHttp(p.response_parser).val[1])>>)
         ELSE IF ToHttp(p.request_parser).kind # "ok"
         THEN Raised("from_parser", ToHttp(p.request_parser).kind)
         ELSE Returned("from_parser",
                  <<ICAPRequestInit(p.sline, p.headers,
                        [ToHttp(p.response_parser).val[1] EXCEPT
                            !.request_line = ToHttp(p.request_parser).val[1].request_line,
                            !.request_headers = ToHttp(p.request_parser).val[1].headers])>>)
    ELSE Raised("from_parser", "UnboundLocalError")

NoParser == None
NoRequest == None

\* The parser of the connection has read its next ICAP request: it holds the
\* envelope, while the request made of the previous one is still around.
Parse(envelope) ==
    /\ parser' = envelope
    /\ ret' = Returned("parse", <<>>)
    /\ UNCHANGED <<request, _body>>
    /\ UNCHANGED <<hookVars, headerVars, msgVars, serverVars>>

\* request = ICAPRequest.from_parser(parser)
FromParser ==
    /\ parser # NoParser
    /\ ret' = [FromParserResult(parser) EXCEPT !.val = <<>>]
    /\ request' = IF FromParserResult(parser).kind = "ok"
                  THEN FromParserResult(parser).val[1]
                  ELSE request
    /\ UNCHANGED <<parser, _body>>
    /\ UNCHANGED <<hookVars, headerVars, msgVars, serverVars>>

----------------------------------------------------------------------------
(* The specifications: one per component, and the whole program. *)

InitProgram ==
    /\ hooks = NoHooks
    /\ decorators = {}
    /\ expected = [n \in HookNames |-> [fallback |-> None, regs |-> 0, overridden |-> FALSE]]
    /\ lastFunc = [n \in HookNames |-> ""]
    /\ interleaved = [n \in HookNames |-> FALSE]
    /\ headers = <<>>
    /\ log = EmptyLog
    /\ msg = [cls |-> "ICAPRequest", method |-> "UNKNOWN"]
    /\ cache = EmptyCache
    /\ reads = NoReads
    /\ parser = NoParser
    /\ request = NoRequest
    /\ _body = NoBody
    /\ _server = NoServer
    /\ servers = <<>>
    /\ loop = "idle"
    /\ ret = NoRet

\* The same, for an ICAP message of any class and method.
Init ==
    /\ hooks = NoHooks
    /\ decorators = {}
    /\ expected = [n \in HookNames |-> [fallback |-> None, regs |-> 0, overridden |-> FALSE]]
    /\ lastFunc = [n \in HookNames |-> ""]
    /\ interleaved = [n \in HookNames |-> FALSE]
    /\ headers = <<>>
    /\ log = EmptyLog
    /\ msg \in Messages
    /\ cache = EmptyCache
    /\ reads = NoReads
    /\ parser = NoParser
    /\ request = NoRequest
    /\ _body = NoBody
    /\ _server = NoServer
    /\ servers = <<>>
    /\ loop = "idle"
    /\ ret = NoRet

\* The names and values given to a HeadersDict on its own.
HKeys == {PyStr(<<"A", "b">>), PyStr(<<"A", "B">>), PyBytes(<<"C", "d">>), PyInt(<<"7">>)}
HValues == {PyStr(<<"x">>), PyStr(<<"y">>), PyBytes(<<"x">>), PyInt(<<"7">>)}
HLookupKeys == HKeys \cup {PyStr(<<"a", "b">>), PyStr(<<"C", "D">>)}

HItems == {<<k, v>> : k \in HKeys, v \in HValues}
HItemSeqs == UNION {[1..n -> HItems] : n \in 0..MaxItems}

NextHooks ==
    \/ \E n \in RegisteredNames, d \in Defaults, o \in BOOLEAN : HooksCall(n, d, o)
    \/ \E d \in decorators, f \in HookFuncs : Wrapped(d, f)
    \/ \E n \in HookNames, kw \in BOOLEAN, out \in Outcomes : CallHook(n, kw, out)

NextHeaders ==
    \/ \E items \in HItemSeqs : Construct(items)
    \/ \E k \in HKeys, v \in HValues : SetItem(k, v)
    \/ \E k \in HKeys, v \in HValues : Replace(k, v)
    \/ \E k \in HLookupKeys : DelItem(k)
    \/ \E k \in HLookupKeys, dflt \in BOOLEAN : Pop(k, dflt)

\* The header fields given to the headers of an ICAP message.
IcapItems ==
    {<<PyStr(<<"A", "l", "l", "o", "w">>), PyStr(<<"2", "0", "4">>)>>,
     <<PyStr(<<"A", "l", "l", "o", "w">>), PyStr(<<"2", "0", "4", "0">>)>>,
     <<PyStr(<<"A", "l", "l", "o", "w">>), PyStr(<<"2", "0", "4", ",", " ", "f", "o", "o">>)>>,
     <<PyStr(<<"A", "l", "l", "o", "w">>), PyStr(<<"f", "o", "o">>)>>,
     <<PyStr(<<"P", "r", "e", "v", "i", "e", "w">>), PyStr(<<"0">>)>>,
     <<PyStr(<<"E", "n", "c", "a", "p", "s", "u", "l", "a", "t", "e", "d">>),
       PyStr(<<"n", "u", "l", "l", "-", "b", "o", "d", "y", "=", "0">>)>>,
     <<PyStr(<<"E", "n", "c", "a", "p", "s", "u", "l", "a", "t", "e", "d">>),
       PyStr(<<"r", "e", "q", "-", "h", "d", "r", "=", "0", ",", " ",
               "r", "e", "q", "-", "b", "o", "d", "y", "=", "9">>)>>}

IcapNames == {item[1] : item \in IcapItems}

NextICAP ==
    \/ \E item \in IcapItems :
           PairCount(headers) < MaxIcapPairs /\ SetItem(item[1], item[2])
    \/ \E item \in IcapItems :
           PairCount(ReplaceH(headers, item[1], item[2])) <= MaxIcapPairs
               /\ Replace(item[1], item[2])
    \/ \E k \in IcapNames : DelItem(k)
    \/ ReadAllow204
    \/ ReadHasBody

\* The Content-Type fields given to the headers of an HTTP message.
ContentTypes ==
    {PyStr(<<"t", "e", "x", "t", "/", "p", "l", "a", "i", "n">>),
     PyStr(<<"t", "e", "x", "t", "/", "h", "t", "m", "l", ";", " ", "c", "h", "a", "r", "s", "e", "t", "=", "u", "t", "f", "-", "8">>),
     PyStr(<<"i", "m", "a", "g", "e", "/", "p", "n", "g", ";", " ", "c", "h", "a", "r", "s", "e", "t", "=", "u", "t", "f", "-", "8">>),
     PyStr(<<"t", "e", "x", "t", "/", "p", "l", "a", "i", "n", ";", " ", "c", "h", "a", "r", "s", "e", "t", "=", "x", "-", "n", "o", "n", "e">>),
     PyStr(<<"a", "p", "p", "l", "i", "c", "a", "t", "i", "o", "n", "/", "j", "s", "o", "n", ";", " ", "c", "h", "a", "r", "s", "e", "t", "=", "U", "S", "-", "A", "S", "C", "I", "I">>)}

\* The values assigned to a body: 'hi', 'h\xe9', b'\xff', b'' and None.
BodyValues ==
    {PyStr(<<104, 105>>), PyStr(<<104, 233>>), PyBytes(<<255>>), PyBytes(<<>>), None}

NextBody ==
    \/ \E v \in ContentTypes :
           PairCount(headers) < MaxContentTypes /\ SetItem(ContentTypeName, v)
    \/ \E v \in ContentTypes :
           PairCount(ReplaceH(headers, ContentTypeName, v)) <= MaxContentTypes
               /\ Replace(ContentTypeName, v)
    \/ DelItem(ContentTypeName)
    \/ \E v \in BodyValues : SetBody(v)

\* The Encapsulated headers of the envelopes, each with its table, by method.
OptionsTables ==
    {[text |-> PyStr(<<"n", "u", "l", "l", "-", "b", "o", "d", "y", "=", "0">>),
      table |-> <<[name |-> "null-body", offset |-> 0]>>],
     [text |-> PyStr(<<"o", "p", "t", "-", "b", "o", "d", "y", "=", "0">>),
      table |-> <<[name |-> "opt-body", offset |-> 0]>>]}

ReqmodTables ==
    {[text |-> PyStr(<<"n", "u", "l", "l", "-", "b", "o", "d", "y", "=", "0">>),
      table |-> <<[name |-> "null-body", offset |-> 0]>>],
     [text |-> PyStr(<<"r", "e", "q", "-", "h", "d", "r", "=", "0", ",", " ", "n", "u", "l", "l", "-", "b", "o", "d", "y", "=", "9">>),
      table |-> <<[name |-> "req-hdr", offset |-> 0], [name |-> "null-body", offset |-> 9]>>],
     [text |-> PyStr(<<"r", "e", "q", "-", "h", "d", "r", "=", "0", ",", " ", "r", "e", "q", "-", "b", "o", "d", "y", "=", "9">>),
      table |-> <<[name |-> "req-hdr", offset |-> 0], [name |-> "req-body", offset |-> 9]>>],
     [text |-> PyStr(<<"r", "e", "q", "-", "b", "o", "d", "y", "=", "0">>),
      table |-> <<[name |-> "req-body", offset |-> 0]>>]}

RespmodTables ==
    {[text |-> PyStr(<<"n", "u", "l", "l", "-", "b", "o", "d", "y", "=", "0">>),
      table |-> <<[name |-> "null-body", offset |-> 0]>>],
     [text |-> PyStr(<<"r", "e", "s", "-", "h", "d", "r", "=", "0", ",", " ", "r", "e", "s", "-", "b", "o", "d", "y", "=", "9">>),
      table |-> <<[name |-> "res-hdr", offset |-> 0], [name |-> "res-body", offset |-> 9]>>],
     [text |-> PyStr(<<"r", "e", "q", "-", "h", "d", "r", "=", "0", ",", " ", "r", "e", "s", "-", "h", "d", "r", "=", "9", ",", " ", "r", "e", "s", "-", "b", "o", "d", "y", "=", "1", "8">>),
      table |-> <<[name |-> "req-hdr", offset |-> 0], [name |-> "res-hdr", offset |-> 9], [name |-> "res-body", offset |-> 18]>>],
     [text |-> PyStr(<<"r", "e", "q", "-", "h", "d", "r", "=", "0", ",", " ", "r", "e", "s", "-", "b", "o", "d", "y", "=", "9">>),
      table |-> <<[name |-> "req-hdr", offset |-> 0], [name |-> "res-body", offset |-> 9]>>],
     [text |-> PyStr(<<"r", "e", "s", "-", "b", "o", "d", "y", "=", "0">>),
      table |-> <<[name |-> "res-body", offset |-> 0]>>]}

HostHeader == SetItemH(<<>>, PyStr(<<"H", "o", "s", "t">>), PyStr(<<"a">>))

\* The sub-parsers of encapsulated HTTP requests and responses.
RequestSubParsers ==
    {[is_request |-> TRUE, sline |-> RequestLine(m, "/a", "HTTP/1.1"),
      headers |-> h, payload |-> PyBytes(<<>>)] :
        m \in {"GET", "POST"}, h \in {<<>>, HostHeader}}

ResponseSubParsers ==
    {[is_request |-> FALSE, sline |-> StatusLine("HTTP/1.1", code, "OK"),
      headers |-> h, payload |-> PyBytes(<<104, 105>>)] :
        code \in {200, 404}, h \in {<<>>, HostHeader}}

\* The envelopes of one method: the ICAP headers hold the Encapsulated header
\* the table was read from, and a sub-parser is there when its header block is.
EnvelopesOf(method, cases) ==
    {[sline |-> RequestLine(method, "/", "ICAP/1.0"),
      headers |-> SetItemH(<<>>, Encapsulated, c.text),
      encapsulated_header |-> c.table,
      request_parser |-> rq,
      response_parser |-> rs] :
        c \in cases, rq \in RequestSubParsers \cup {None},
        rs \in ResponseSubParsers \cup {None}}

Envelopes ==
    {e \in EnvelopesOf("OPTIONS", OptionsTables)
             \cup EnvelopesOf("REQMOD", ReqmodTables)
             \cup EnvelopesOf("RESPMOD", RespmodTables) :
        /\ (e.request_parser # None) = InTable("req-hdr", e.encapsulated_header)
        /\ (e.response_parser # None) = InTable("res-hdr", e.encapsulated_header)}
        \cup {[sline |-> RequestLine("OPTIONS", "/", "ICAP/1.0"), headers |-> <<>>,
               encapsulated_header |-> <<>>, request_parser |-> None,
               response_parser |-> None]}

NextParser ==
    \/ \E e \in Envelopes : Parse(e)
    \/ FromParser

NextServer ==
    \/ \E port \in Ports : Run(port)
    \/ RunForeverEnds
    \/ Stop

SpecHooks == InitProgram /\ [][NextHooks]_vars

SpecHeaders == InitProgram /\ [][NextHeaders]_vars

SpecICAP == Init /\ [][NextICAP]_vars

SpecServer == InitProgram /\ [][NextServer]_vars

SpecBody == InitProgram /\ [][NextBody]_vars

SpecParser == InitProgram /\ [][NextParser]_vars

Next == NextHooks \/ NextHeaders \/ NextICAP \/ NextServer \/ NextBody \/ NextParser

Spec == Init /\ [][Next]_vars

----------------------------------------------------------------------------
(* Claims about the hook table, checked under SpecHooks. *)

D1 == PyStr(<<"d", "1">>)

\* What C1 says a call of hooks[n] returns when the registered function does `out`.
ClaimedCallResult(n, out) ==
    IF ~Has(hooks, n) THEN None
    ELSE IF out = "return" THEN Result(hooks[n].func)
    ELSE hooks[n].default

----------------------------------------------------------------------------
(* Claims about HeadersDict, checked under SpecHeaders. *)

SameName(a, b) == PyLower(a) = PyLower(b)

\* The values inserted under any case variant of key, in insertion order.
LogValues(key) ==
    LET sel == SelectSeq(log.items, LAMBDA p : SameName(p[1], key))
    IN  [i \in DOMAIN sel |-> sel[i][2]]

CaseVariants(key) == {key, PyLower(key), PyUpper(key)}

\* C4: after insertions only, for every inserted name N and each of N,
\* lower(N), upper(N): getlist gives every value inserted under a case variant
\* of N in insertion order, h[...] gives the first of them, and `in` is true.
C4_CaseInsensitiveMultimap ==
    log.pure =>
        \A i \in DOMAIN log.items : \A k \in CaseVariants(log.items[i][1]) :
            /\ Contains(headers, k)
            /\ GetList(headers, k) = LogValues(log.items[i][1])
            /\ GetItem(headers, k) = LogValues(log.items[i][1])[1]

\* Two values were inserted under two spellings of one name.
C4_Witness ==
    /\ log.pure
    /\ \E i, j \in DOMAIN log.items :
          /\ i < j /\ log.items[i][1] # log.items[j][1]
          /\ SameName(log.items[i][1], log.items[j][1])
          /\ log.items[i][2] # log.items[j][2]
    /\ Len(GetList(headers, PyStr(<<"a", "b">>))) >= 2

\* The items of h stored under another key than lkey, in order.
Others(h, lkey) == SelectSeq(h, LAMBDA g : g.lkey # lkey)

\* C5 as stated: pop(name) of a name that holds pairs returns the first value
\* stored under it and removes all its pairs; nothing else changes.
C5_PopReturnsFirstValue ==
    [][\A k \in HLookupKeys, d \in BOOLEAN :
          (ret'.op = "pop" /\ HasLower(k) /\ IndexOf(headers, PyLower(k)) # 0 /\ Pop(k, d)) =>
              /\ ret'.kind = "ok"
              /\ ret'.val[1].t # "list"
              /\ ret'.val = <<headers[IndexOf(headers, PyLower(k))].pairs[1][2]>>
              /\ IndexOf(headers', PyLower(k)) = 0
              /\ GetList(headers', k) = <<>>
              /\ Others(headers', PyLower(k)) = Others(headers, PyLower(k))]_vars

\* C6: replace(N, v) leaves under N the one pair (N, v), whatever was stored
\* under N before, and leaves the other names, their pairs and their order.
C6_ReplaceLeavesOnePair ==
    [][ret'.op = "replace" => \A k \in HKeys, v \in HValues :
          (HasLower(k) /\ headers' = ReplaceH(headers, k, v) /\ Replace(k, v)) =>
              LET i == IndexOf(headers', PyLower(k))
              IN  /\ i # 0
                  /\ headers'[i].pairs = <<<<k, v>>>>
                  /\ GetList(headers', k) = <<v>>
                  /\ Others(headers', PyLower(k)) = Others(headers, PyLower(k))]_vars

\* A replace has acted on a name that held two pairs, next to another name.
C6_Witness ==
    /\ ret.op = "replace" /\ ret.kind = "ok" /\ ret.was >= 2
    /\ Len(headers) >= 2

\* The bytes of one `Name: Value\r\n` line per pair of items, in that order.
LinesOf(items) ==
    PyBytes(Concat([n \in DOMAIN items |->
                       items[n][1].s \o <<":", " ">> \o items[n][2].s \o <<"\r", "\n">>]))

\* items with the pairs of one name (case-insensitively) brought together at
\* the place of the name's first pair.
RECURSIVE Grouped(_)
Grouped(items) ==
    IF items = <<>> THEN <<>>
    ELSE SelectSeq(items, LAMBDA p : SameName(p[1], Head(items)[1]))
             \o Grouped(SelectSeq(items, LAMBDA p : ~SameName(p[1], Head(items)[1])))

\* C7 as stated: the serialization has one line per pair, in insertion order.
C7_BytesInInsertionOrder ==
    log.pure => HeaderBytes(headers) = Returned("bytes", <<LinesOf(log.items)>>)

\* C7 amended: one line per pair with the pair's original-case name; the lines
\* of one name (case-insensitively) are together, the names in the order of
\* their first insertion, each name's lines in insertion order; b'' when empty.
C7_BytesGroupedByName ==
    log.pure => HeaderBytes(headers) = Returned("bytes", <<LinesOf(Grouped(log.items))>>)

\* Insertions under two names were interleaved: A, B, A.
C7_Witness ==
    /\ log.pure /\ Len(log.items) = 3
    /\ SameName(log.items[1][1], log.items[3][1])
    /\ ~SameName(log.items[1][1], log.items[2][1])
    /\ log.items[1][1] # log.items[3][1]

\* C8 as stated: every stored name and value is text, whatever operations ran.
C8_StoredNamesAndValuesAreText ==
    /\ AllText(headers)
    /\ \A i \in DOMAIN headers : headers[i].lkey.t = "str"

----------------------------------------------------------------------------
(* Claims about the ICAP message, checked under SpecICAP. *)

\* The tokens of a comma-separated list.
Tokens(s) == LET parts == Split(s, ",", <<>>) IN {Strip(parts[i]) : i \in DOMAIN parts}

\* The part of an Encapsulated entry before its "=".
EntityName(tok) == Head(Split(tok, "=", <<>>))

ClaimedAllow204(h) ==
    \/ Contains(h, PyStr(<<"P", "r", "e", "v", "i", "e", "w">>))
    \/ \E v \in {GetList(h, PyStr(<<"A", "l", "l", "o", "w">>))[i] :
                    i \in DOMAIN GetList(h, PyStr(<<"A", "l", "l", "o", "w">>))} :
           <<"2", "0", "4">> \in Tokens(v.s)

\* C3 as stated: allow_204 is true exactly when the request has a Preview
\* header or its Allow header holds 204 as a list token (so not for 2040).
C3_Allow204IsTokenOrPreview ==
    [][(IsRequest(msg) /\ cache.allow_204 = "unset" /\ ReadAllow204) =>
          ret' = Returned("allow_204", <<Bool(ClaimedAllow204(headers))>>)]_vars

ListsNullBody(h) ==
    \E v \in {GetList(h, Encapsulated)[i] : i \in DOMAIN GetList(h, Encapsulated)} :
        \E tok \in Tokens(v.s) : EntityName(tok) = NullBody

ClaimedHasBody(m, h) ==
    IF ListsNullBody(h) THEN FALSE
    ELSE IF IsRequest(m) /\ IsOptions(m) /\ ~Contains(h, Encapsulated) THEN FALSE
    ELSE TRUE

\* C9 as stated: has_body is false when Encapsulated lists null-body, false for
\* an OPTIONS request without Encapsulated, and true in every other case.
C9_HasBodyUnlessNullBody ==
    [][(cache.has_body = "unset" /\ ReadHasBody) =>
          ret' = Returned("has_body", <<Bool(ClaimedHasBody(msg, headers))>>)]_vars

----------------------------------------------------------------------------
(* Claims about run and stop, checked under SpecServer. *)

----------------------------------------------------------------------------
(* Claims about ICAPRequest.from_parser, checked under SpecParser. *)

\* The HTTP message the envelope's method calls for.
ClaimedHttp(p) ==
    IF p.sline.method = "OPTIONS" THEN None
    ELSE IF p.sline.method = "REQMOD"
    THEN [cls |-> "HTTPRequest", request_line |-> p.request_parser.sline,
          headers |-> p.request_parser.headers, body |-> p.request_parser.payload]
    ELSE [cls |-> "HTTPResponse", status_line |-> p.response_parser.sline,
          headers |-> p.response_parser.headers, body |-> p.response_parser.payload,
          request_line |-> IF InTable("req-hdr", p.encapsulated_header)
                           THEN p.request_parser.sline ELSE DefaultRequestLine,
          request_headers |-> IF InTable("req-hdr", p.encapsulated_header)
                              THEN p.request_parser.headers ELSE <<>>]

\* C11 as stated: from_parser gives, for every envelope, an ICAP request whose
\* http slot is None for OPTIONS, the HTTP request of the request sub-parser for
\* REQMOD, and for RESPMOD the HTTP response of the response sub-parser, with
\* the originating request's line and headers when the table has req-hdr and
\* the defaults otherwise.
C11_HttpSlotMatchesMethod ==
    ret.op = "from_parser" =>
        /\ ret.kind = "ok"
        /\ request.cls = "ICAPRequest"
        /\ request.request_line = parser.sline
        /\ request.http = ClaimedHttp(parser)

----------------------------------------------------------------------------
(* Claims about the body of an HTTP message, checked under SpecBody. *)

\* The Content-Type in force: the first one stored, or the default.
InForce(h) ==
    IF GetList(h, ContentTypeName) = <<>> THEN DefaultContentType
    ELSE GetList(h, ContentTypeName)[1]

\* The Content-Types that name a charset under an application, text or
\* message media type, each with its charset.
Utf8Types == {PyStr(<<"t", "e", "x", "t", "/", "h", "t", "m", "l", ";", " ", "c", "h", "a", "r", "s", "e", "t", "=", "u", "t", "f", "-", "8">>)}
AsciiTypes == {DefaultContentType, PyStr(<<"a", "p", "p", "l", "i", "c", "a", "t", "i", "o", "n", "/", "j", "s", "o", "n", ";", " ", "c", "h", "a", "r", "s", "e", "t", "=", "U", "S", "-", "A", "S", "C", "I", "I">>)}
NoCodecTypes == {PyStr(<<"t", "e", "x", "t", "/", "p", "l", "a", "i", "n", ";", " ", "c", "h", "a", "r", "s", "e", "t", "=", "x", "-", "n", "o", "n", "e">>)}
TextTypes == Utf8Types \cup AsciiTypes \cup NoCodecTypes

\* 'hi' and 'h\xe9' in UTF-8 and in US-ASCII, which has no byte for \xe9.
HasEncoding(ct, text) ==
    \/ ct \in Utf8Types
    \/ ct \in AsciiTypes /\ text = PyStr(<<104, 105>>)

EncodingOf(ct, text) ==
    IF text = PyStr(<<104, 105>>) THEN PyBytes(<<104, 105>>)
    ELSE PyBytes(<<104, 195, 169>>)

\* What C12 says of every assignment, whatever the text and the charset.
BytesOrTypeError(value) ==
    /\ _body'.t = "bytes"
    /\ value.t = "bytes" => ret'.kind = "ok" /\ _body' = value
    /\ (value.t = "str" /\ InForce(headers) \in TextTypes) =>
           /\ ret'.kind = "ok"
           /\ HasEncoding(InForce(headers), value)
           /\ _body' = EncodingOf(InForce(headers), value)
    /\ (value.t = "str" /\ InForce(headers) \notin TextTypes) =>
           ret'.kind = "TypeError" /\ _body' = _body

\* C12 as stated: the stored body is bytes after every assignment; bytes are
\* stored as given; text is stored encoded with the Content-Type charset when
\* there is one under an application, text or message media type; every other
\* text assignment raises TypeError and leaves the stored body as it was.
C12_BodyIsBytesOrTypeError ==
    [][ret'.op = "body" => \A v \in BodyValues : SetBody(v) => BytesOrTypeError(v)]_vars

\* The same, with the text the charset cannot encode set apart.
BytesOrError(value) ==
    /\ _body'.t = "bytes"
    /\ value.t = "bytes" => ret'.kind = "ok" /\ _body' = value
    /\ (value.t = "str" /\ InForce(headers) \in TextTypes
            /\ HasEncoding(InForce(headers), value)) =>
           ret'.kind = "ok" /\ _body' = EncodingOf(InForce(headers), value)
    /\ (value.t = "str" /\ InForce(headers) \in TextTypes
            /\ ~HasEncoding(InForce(headers), value)) =>
           /\ ret'.kind = IF InForce(headers) \in NoCodecTypes
                          THEN "LookupError" ELSE "UnicodeEncodeError"
           /\ _body' = _body
    /\ (value.t = "str" /\ InForce(headers) \notin TextTypes) =>
           ret'.kind = "TypeError" /\ _body' = _body
    /\ value.t \notin {"bytes", "str"} => ret'.kind = "TypeError" /\ _body' = _body

\* C12 amended: the stored body is bytes after every assignment; bytes are
\* stored as given; text under a charset and an application, text or message
\* media type is stored encoded when the charset can encode it, and otherwise
\* raises LookupError (no such codec) or UnicodeEncodeError (no bytes for a
\* character); every other assignment raises TypeError; an assignment that
\* raises leaves the stored body as it was.
C12_BodyIsBytesOrError ==
    [][ret'.op = "body" => \A v \in BodyValues : SetBody(v) => BytesOrError(v)]_vars

\* Text with a non-ASCII character was assigned under charset=utf-8 and is
\* stored as its UTF-8 bytes.
C12_Witness ==
    /\ ret.op = "body" /\ ret.kind = "ok"
    /\ InForce(headers) \in Utf8Types
    /\ _body = PyBytes(<<104, 195, 169>>)

----------------------------------------------------------------------------
(* Claims about the cached properties of an ICAP request, checked under    *)
(* SpecICAP.                                                               *)

\* C13 as stated: once allow_204 or has_body of a request has been read, every
\* later read of it gives what the first read gave, whatever was inserted,
\* replaced or removed in the request's headers in between.
C13_ReadsFixedAtFirstRead ==
    [][IsRequest(msg) =>
          /\ (ReadAllow204 /\ reads.allow_204 # "unread") =>
                 Outcome(ret') = reads.allow_204
          /\ (ReadHasBody /\ reads.has_body # "unread") =>
                 Outcome(ret') = reads.has_body]_vars

====
